---- MODULE Spec2Model ----
(***************************************************************************)
(* Model of the OpenAPI schema query server (src/index.mjs).               *)
(*                                                                         *)
(* The server registers ten tools.  Every tool call loads the document     *)
(* file named by the call (loadSchema), runs one handler over the loaded   *)
(* JavaScript value and answers with one text block: the YAML dump of a    *)
(* value (toYaml) or a plain diagnostic sentence.                          *)
(*                                                                         *)
(* JavaScript values are modelled as tagged records [t |-> tag, v |-> x]:  *)
(*   undef, null, bool, num, str, arr (v: sequence of values),             *)
(*   obj (v: sequence of entries [k |-> key, v |-> value] in the order     *)
(*   Object.keys enumerates them), fun (a built-in function object).       *)
(***************************************************************************)
EXTENDS Integers, Sequences, FiniteSets, TLC

VARIABLES file, alive, req, doc, res, last

vars == <<file, alive, req, doc, res, last>>

----------------------------------------------------------------------------
(* JavaScript values *)

Undef == [t |-> "undef", v |-> 0]
Null == [t |-> "null", v |-> 0]
Str(s) == [t |-> "str", v |-> s]
Num(n) == [t |-> "num", v |-> n]
Bool(b) == [t |-> "bool", v |-> b]
Arr(s) == [t |-> "arr", v |-> s]
Obj(es) == [t |-> "obj", v |-> es]
Fun(n) == [t |-> "fun", v |-> n]
KV(k, x) == [k |-> k, v |-> x]

\* null and undefined: a property read on them throws TypeError
IsNullish(x) == x.t \in {"undef", "null"}

\* ToBoolean: what `!x`, `x || y` and `if (x)` test
Truthy(x) ==
    CASE x.t \in {"undef", "null"} -> FALSE
      [] x.t = "bool" -> x.v
      [] x.t = "num" -> x.v # 0
      [] x.t = "str" -> x.v # ""
      [] OTHER -> TRUE

\* x || y
OrElse(x, y) == IF Truthy(x) THEN x ELSE y

\* Properties every object inherits from Object.prototype (a bounded sample)
ProtoKeys == {"constructor"}

OwnKeys(x) == IF x.t = "obj" THEN [i \in 1..Len(x.v) |-> x.v[i].k] ELSE <<>>

HasOwn(x, k) == x.t = "obj" /\ \E i \in 1..Len(x.v) : x.v[i].k = k

OwnValue(x, k) == x.v[CHOOSE i \in 1..Len(x.v) : x.v[i].k = k].v

\* x[k] for a non-nullish x: the own property, else the inherited one, else
\* undefined
Get(x, k) ==
    IF HasOwn(x, k) THEN OwnValue(x, k)
    ELSE IF k \in ProtoKeys THEN Fun(k)
    ELSE Undef

\* x?.[k]
GetOpt(x, k) == IF IsNullish(x) THEN Undef ELSE Get(x, k)

\* The characters of the strings a search reads or is given, and of the
\* strings whose indices are enumerated
Chars(s) ==
    CASE s = "" -> <<>>
      [] s = "/pets" -> <<"/", "p", "e", "t", "s">>
      [] s = "/x" -> <<"/", "x">>
      [] s = "List pets" -> <<"L", "i", "s", "t", " ", "p", "e", "t", "s">>
      [] s = "Add" -> <<"A", "d", "d">>
      [] s = "a pet" -> <<"a", " ", "p", "e", "t">>
      [] s = "zoo" -> <<"z", "o", "o">>
      [] s = "petId" -> <<"p", "e", "t", "I", "d">>
      [] s = "limit" -> <<"l", "i", "m", "i", "t">>
      [] s = "Pet" -> <<"P", "e", "t">>
      [] s = "key" -> <<"k", "e", "y">>
      [] s = "API key" -> <<"A", "P", "I", " ", "k", "e", "y">>
      [] s = "pet" -> <<"p", "e", "t">>
      [] s = "p.t" -> <<"p", ".", "t">>
      [] s = "zzz" -> <<"z", "z", "z">>
      [] s = "KEY" -> <<"K", "E", "Y">>
      [] s = "(" -> <<"(">>
      [] s = "add" -> <<"a", "d", "d">>
      [] s = "0" -> <<"0">>
      [] s = "1" -> <<"1">>
      [] s = "2" -> <<"2">>

\* Object.keys(x) for a non-nullish x: a mapping's own keys, the indices of
\* an array or of a string, nothing for a function or another primitive
Keys(x) ==
    CASE x.t = "obj" -> OwnKeys(x)
      [] x.t = "arr" -> [i \in 1..Len(x.v) |-> ToString(i - 1)]
      [] x.t = "str" -> [i \in 1..Len(Chars(x.v)) |-> ToString(i - 1)]
      [] OTHER -> <<>>

\* Object.values(x)
Values(x) ==
    CASE x.t = "obj" -> [i \in 1..Len(x.v) |-> x.v[i].v]
      [] x.t = "arr" -> x.v
      [] x.t = "str" -> [i \in 1..Len(Chars(x.v)) |-> Str(Chars(x.v)[i])]
      [] OTHER -> <<>>

\* Object.entries(x)
Entries(x) ==
    CASE x.t = "obj" -> x.v
      [] x.t = "arr" -> [i \in 1..Len(x.v) |-> KV(ToString(i - 1), x.v[i])]
      [] x.t = "str" ->
           [i \in 1..Len(Chars(x.v)) |-> KV(ToString(i - 1), Str(Chars(x.v)[i]))]
      [] OTHER -> <<>>

\* The elements a for-of loop or a spread visits
Elems(x) == IF x.t = "arr" THEN x.v ELSE <<>>

----------------------------------------------------------------------------
(* Strings: case mapping, joining *)

LowerTab ==
    [s \in {"GET", "Get", "POST", "PUT", "DELETE", "PATCH", "OPTIONS", "HEAD"} |->
        CASE s \in {"GET", "Get"} -> "get"
          [] s = "POST" -> "post"
          [] s = "PUT" -> "put"
          [] s = "DELETE" -> "delete"
          [] s = "PATCH" -> "patch"
          [] s = "OPTIONS" -> "options"
          [] s = "HEAD" -> "head"]

UpperTab ==
    [s \in {"get", "Get", "post", "put", "delete", "patch", "options", "head",
            "parameters", "summary", "constructor"} |->
        CASE s \in {"get", "Get"} -> "GET"
          [] s = "post" -> "POST"
          [] s = "put" -> "PUT"
          [] s = "delete" -> "DELETE"
          [] s = "patch" -> "PATCH"
          [] s = "options" -> "OPTIONS"
          [] s = "head" -> "HEAD"
          [] s = "parameters" -> "PARAMETERS"
          [] s = "summary" -> "SUMMARY"
          [] s = "constructor" -> "CONSTRUCTOR"]

\* String.prototype.toLowerCase / toUpperCase on the model's key vocabulary
ToLowerCase(s) == IF s \in DOMAIN LowerTab THEN LowerTab[s] ELSE s

ToUpperCase(s) == IF s \in DOMAIN UpperTab THEN UpperTab[s] ELSE s

RECURSIVE JoinFrom(_, _, _)
JoinFrom(ss, sep, i) ==
    IF i > Len(ss) THEN ""
    ELSE IF i = Len(ss) THEN ss[i]
    ELSE ss[i] \o sep \o JoinFrom(ss, sep, i + 1)

\* Array.prototype.join
Join(ss, sep) == JoinFrom(ss, sep, 1)

\* The fixed method list written out in list-endpoints and search-schema
HttpMethods == <<"get", "post", "put", "delete", "patch", "options", "head">>

Range(s) == {s[i] : i \in DOMAIN s}

----------------------------------------------------------------------------
(* loadSchema: the YAML file becomes a JavaScript value *)

\* Keys that are canonical array indices: a JavaScript object enumerates
\* them first, in ascending numeric order, before its other keys
IndexKeys == {"200", "201", "404"}

IndexOf(k) ==
    CASE k = "200" -> 200
      [] k = "201" -> 201
      [] k = "404" -> 404

\* The entries whose keys are array indices, ascending
RECURSIVE SortIndexEntries(_)
SortIndexEntries(es) ==
    IF es = {} THEN <<>>
    ELSE LET m == CHOOSE e \in es : \A f \in es : IndexOf(e.k) <= IndexOf(f.k)
         IN  <<m>> \o SortIndexEntries(es \ {m})

\* OrdinaryOwnPropertyKeys: index keys ascending, then string keys in the
\* order they were created (the document's order)
PropertyOrder(es) ==
    SortIndexEntries({es[i] : i \in {j \in 1..Len(es) : es[j].k \in IndexKeys}})
    \o SelectSeq(es, LAMBDA e : e.k \notin IndexKeys)

\* A load that keeps every mapping in the order the document writes it
YamlLoadWritten(n) == n

\* yaml.load builds each mapping as a plain object, key by key in document
\* order, and each sequence as an array
RECURSIVE YamlLoad(_)
YamlLoad(n) ==
    CASE n.t = "obj" ->
           Obj(PropertyOrder([i \in 1..Len(n.v) |-> KV(n.v[i].k, YamlLoad(n.v[i].v))]))
      [] n.t = "arr" -> Arr([i \in 1..Len(n.v) |-> YamlLoad(n.v[i])])
      [] OTHER -> n

(* toYaml: yaml.dump(obj, {lineWidth: 100, noRefs: true}).  The dump is     *)
(* modelled by the data it writes: a mapping entry whose value is undefined *)
(* is left out, an undefined array element is written as null, and a        *)
(* function cannot be dumped (the dumper throws).                           *)
RECURSIVE Dumpable(_)
Dumpable(x) ==
    CASE x.t = "fun" -> FALSE
      [] x.t = "obj" -> \A i \in 1..Len(x.v) : Dumpable(x.v[i].v)
      [] x.t = "arr" -> \A i \in 1..Len(x.v) : Dumpable(x.v[i])
      [] OTHER -> TRUE

RECURSIVE Dump(_)
Dump(x) ==
    CASE x.t = "obj" ->
           Obj([i \in 1..Len(SelectSeq(x.v, LAMBDA e : e.v.t # "undef")) |->
                  LET e == SelectSeq(x.v, LAMBDA f : f.v.t # "undef")[i]
                  IN  KV(e.k, Dump(e.v))])
      [] x.t = "arr" ->
           Arr([i \in 1..Len(x.v) |-> IF x.v[i].t = "undef" THEN Null ELSE Dump(x.v[i])])
      [] OTHER -> x

\* obj[k] = x on a plain object: an existing key keeps its place, a new key
\* is added in property order
Put(o, k, x) ==
    IF HasOwn(o, k)
    THEN Obj([i \in 1..Len(o.v) |-> IF o.v[i].k = k THEN KV(k, x) ELSE o.v[i]])
    ELSE Obj(PropertyOrder(Append(o.v, KV(k, x))))

----------------------------------------------------------------------------
(* What a tool call comes to *)

\* No call is being answered
NoRes == [kind |-> "none", text |-> "", val |-> Undef]

\* A plain sentence: { content: [{ type: "text", text }] }
Text(s) == [kind |-> "text", text |-> s, val |-> Undef]

\* The handler threw: the call ends in an error
Throw(e) == [kind |-> "throw", text |-> e, val |-> Undef]

\* { content: [{ type: "text", text: toYaml(x) }] }
Yaml(x) ==
    IF Dumpable(x) THEN [kind |-> "yaml", text |-> "", val |-> Dump(x)]
    ELSE Throw("YAMLException")

TypeError == Throw("TypeError")

----------------------------------------------------------------------------
(* list-endpoints *)

\* Object.keys(pathItem).filter(key => [...].includes(key.toLowerCase()))
MethodKeys(pathItem) ==
    SelectSeq(Keys(pathItem), LAMBDA key : ToLowerCase(key) \in Range(HttpMethods))

\* The inner loop: pathMap[path][method.toUpperCase()] = summary || "No summary"
RECURSIVE MethodSummaries(_, _, _)
MethodSummaries(pathItem, methods, acc) ==
    IF methods = <<>> THEN acc
    ELSE MethodSummaries(pathItem, Tail(methods),
             Put(acc, ToUpperCase(Head(methods)),
                 OrElse(Get(Get(pathItem, Head(methods)), "summary"), Str("No summary"))))

ListEndpoints(d) ==
    IF IsNullish(d) THEN TypeError
    ELSE LET es == Entries(OrElse(Get(d, "paths"), Obj(<<>>)))
         IN  IF \E i \in 1..Len(es) :
                   \/ IsNullish(es[i].v)
                   \/ \E m \in Range(MethodKeys(es[i].v)) : IsNullish(Get(es[i].v, m))
             THEN TypeError
             ELSE Yaml(Obj([i \in 1..Len(es) |->
                      KV(es[i].k, MethodSummaries(es[i].v, MethodKeys(es[i].v), Obj(<<>>)))]))

----------------------------------------------------------------------------
(* get-endpoint, get-request-body, get-response-schema *)

PathNotFound(path) == Text("Path " \o path \o " not found")

MethodNotFound(path, method) ==
    Text("Method " \o method \o " not found for path " \o path)

\* get-endpoint that echoes the method as it was given
GetEndpointAsGiven(d, path, method) ==
    IF IsNullish(d) THEN TypeError
    ELSE LET pathItem == GetOpt(Get(d, "paths"), path)
         IN  IF ~Truthy(pathItem) THEN PathNotFound(path)
             ELSE LET operation == Get(pathItem, ToLowerCase(method))
                  IN  IF ~Truthy(operation) THEN MethodNotFound(path, method)
                      ELSE Yaml(Obj(<<KV("path", Str(path)), KV("method", Str(method)),
                                      KV("summary", Get(operation, "summary")),
                                      KV("responses", Get(operation, "responses"))>>))

GetEndpoint(d, path, method) ==
    IF IsNullish(d) THEN TypeError
    ELSE LET pathItem == GetOpt(Get(d, "paths"), path)
         IN  IF ~Truthy(pathItem) THEN PathNotFound(path)
             ELSE LET operation == Get(pathItem, ToLowerCase(method))
                  IN  IF ~Truthy(operation) THEN MethodNotFound(path, method)
                      ELSE Yaml(Obj(<<
                               KV("path", Str(path)),
                               KV("method", Str(ToUpperCase(method))),
                               KV("summary", Get(operation, "summary")),
                               KV("description", Get(operation, "description")),
                               KV("tags", Get(operation, "tags")),
                               KV("parameters", Get(operation, "parameters")),
                               KV("requestBody", Get(operation, "requestBody")),
                               KV("responses", Get(operation, "responses")),
                               KV("security", Get(operation, "security")),
                               KV("deprecated", Get(operation, "deprecated"))>>))

GetRequestBody(d, path, method) ==
    IF IsNullish(d) THEN TypeError
    ELSE LET pathItem == GetOpt(Get(d, "paths"), path)
         IN  IF ~Truthy(pathItem) THEN PathNotFound(path)
             ELSE LET operation == Get(pathItem, ToLowerCase(method))
                  IN  IF ~Truthy(operation) THEN MethodNotFound(path, method)
                      ELSE LET requestBody == Get(operation, "requestBody")
                           IN  IF ~Truthy(requestBody)
                               THEN Text("No request body defined for " \o method \o " " \o path)
                               ELSE Yaml(requestBody)

\* statusCode: z.string().default("200")
DefaultStatus(statusCode) == IF statusCode.t = "undef" THEN "200" ELSE statusCode.v

\* get-response-schema without the fallback to the default response
GetResponseSchemaExact(d, path, method, statusCode) ==
    IF IsNullish(d) THEN TypeError
    ELSE LET pathItem == GetOpt(Get(d, "paths"), path)
         IN  IF ~Truthy(pathItem) THEN PathNotFound(path)
             ELSE LET operation == Get(pathItem, ToLowerCase(method))
                  IN  IF ~Truthy(operation) THEN MethodNotFound(path, method)
                      ELSE IF ~Truthy(Get(operation, "responses"))
                      THEN Text("No responses defined for " \o method \o " " \o path)
                      ELSE IF ~Truthy(Get(Get(operation, "responses"), statusCode))
                      THEN Text("No response for status code " \o statusCode)
                      ELSE Yaml(Get(Get(operation, "responses"), statusCode))

GetResponseSchema(d, path, method, statusCode) ==
    IF IsNullish(d) THEN TypeError
    ELSE LET pathItem == GetOpt(Get(d, "paths"), path)
         IN  IF ~Truthy(pathItem) THEN PathNotFound(path)
             ELSE LET operation == Get(pathItem, ToLowerCase(method))
                  IN  IF ~Truthy(operation) THEN MethodNotFound(path, method)
                      ELSE LET responses == Get(operation, "responses")
                           IN  IF ~Truthy(responses)
                               THEN Text("No responses defined for " \o method \o " " \o path)
                               ELSE LET response ==
                                            OrElse(Get(responses, statusCode),
                                                   Get(responses, "default"))
                                    IN  IF ~Truthy(response)
                                        THEN Text("No response for status code " \o statusCode
                                                  \o " (or default) found for " \o method
                                                  \o " " \o path
                                                  \o ".\nAvailable status codes: "
                                                  \o Join(Keys(responses), ", "))
                                        ELSE Yaml(response)

----------------------------------------------------------------------------
(* get-path-parameters *)

\* get-path-parameters where a method's parameter replaces the shared ones
\* of the same name
GetPathParametersOverride(d, path, method) ==
    IF IsNullish(d) THEN TypeError
    ELSE LET pathItem == GetOpt(Get(d, "paths"), path)
         IN  IF ~Truthy(pathItem) THEN PathNotFound(path)
             ELSE LET shared == Elems(OrElse(Get(pathItem, "parameters"), Arr(<<>>)))
                      operation == IF Truthy(method)
                                   THEN Get(pathItem, ToLowerCase(method.v))
                                   ELSE Undef
                      own == IF Truthy(method) /\ Truthy(operation)
                             THEN Elems(OrElse(Get(operation, "parameters"), Arr(<<>>)))
                             ELSE <<>>
                      parameters ==
                          SelectSeq(shared,
                                    LAMBDA q : \A i \in 1..Len(own) :
                                                   Get(own[i], "name") # Get(q, "name"))
                          \o own
                  IN  IF Len(parameters) = 0
                      THEN Text("No parameters found for "
                                \o (IF Truthy(method) THEN ToUpperCase(method.v) \o " " ELSE "")
                                \o path)
                      ELSE Yaml(Arr(parameters))

GetPathParameters(d, path, method) ==
    IF IsNullish(d) THEN TypeError
    ELSE LET pathItem == GetOpt(Get(d, "paths"), path)
         IN  IF ~Truthy(pathItem) THEN PathNotFound(path)
             ELSE LET shared == Elems(OrElse(Get(pathItem, "parameters"), Arr(<<>>)))
                      operation == IF Truthy(method)
                                   THEN Get(pathItem, ToLowerCase(method.v))
                                   ELSE Undef
                      parameters ==
                          IF Truthy(method) /\ Truthy(operation)
                             /\ Truthy(Get(operation, "parameters"))
                          THEN shared \o Elems(Get(operation, "parameters"))
                          ELSE shared
                  IN  IF Len(parameters) = 0
                      THEN Text("No parameters found for "
                                \o (IF Truthy(method) THEN ToUpperCase(method.v) \o " " ELSE "")
                                \o path)
                      ELSE Yaml(Arr(parameters))

----------------------------------------------------------------------------
(* list-components, get-component, list-security-schemes *)

\* for (const [type, items] of ...) if (items && typeof items === "object")
RECURSIVE ComponentKeys(_, _)
ComponentKeys(es, acc) ==
    IF es = <<>> THEN acc
    ELSE ComponentKeys(Tail(es),
             IF Truthy(Head(es).v) /\ Head(es).v.t \in {"obj", "arr"}
             THEN Put(acc, Head(es).k,
                      Arr([i \in 1..Len(Keys(Head(es).v)) |-> Str(Keys(Head(es).v)[i])]))
             ELSE acc)

ListComponents(d) ==
    IF IsNullish(d) THEN TypeError
    ELSE Yaml(ComponentKeys(Entries(OrElse(Get(d, "components"), Obj(<<>>))), Obj(<<>>)))

GetComponent(d, type, name) ==
    IF IsNullish(d) THEN TypeError
    ELSE LET components == OrElse(Get(d, "components"), Obj(<<>>))
             componentType == Get(components, type)
         IN  IF ~Truthy(componentType)
             THEN Text("Component type '" \o type \o "' not found. Available types: "
                       \o Join(Keys(components), ", "))
             ELSE LET component == Get(componentType, name)
                  IN  IF ~Truthy(component)
                      THEN Text("Component '" \o name \o "' not found in '" \o type
                                \o "'. Available components: "
                                \o Join(Keys(componentType), ", "))
                      ELSE Yaml(component)

\* One scheme's summary record
SchemeSummary(scheme) ==
    Obj(<<KV("type", Get(scheme, "type")), KV("description", Get(scheme, "description"))>>
        \o (IF Get(scheme, "type") = Str("oauth2")
            THEN <<KV("flows",
                      LET ks == Keys(OrElse(Get(scheme, "flows"), Obj(<<>>)))
                      IN  Arr([i \in 1..Len(ks) |-> Str(ks[i])]))>>
            ELSE <<>>)
        \o (IF Get(scheme, "type") = Str("apiKey")
            THEN <<KV("in", Get(scheme, "in")), KV("name", Get(scheme, "name"))>>
            ELSE <<>>)
        \o (IF Get(scheme, "type") = Str("http")
            THEN <<KV("scheme", Get(scheme, "scheme"))>>
            ELSE <<>>))

ListSecuritySchemes(d) ==
    IF IsNullish(d) THEN TypeError
    ELSE LET es == Entries(OrElse(GetOpt(Get(d, "components"), "securitySchemes"), Obj(<<>>)))
         IN  IF \E i \in 1..Len(es) : IsNullish(es[i].v) THEN TypeError
             ELSE IF Len(es) = 0 THEN Text("No security schemes defined in this API")
             ELSE Yaml(Obj([i \in 1..Len(es) |-> KV(es[i].k, SchemeSummary(es[i].v))]))

----------------------------------------------------------------------------
(* get-examples *)

\* The loop over a content mapping: examples, else a truthy example
RECURSIVE ContentExamples(_, _)
ContentExamples(es, acc) ==
    IF es = <<>> THEN acc
    ELSE LET content == Head(es).v
         IN  ContentExamples(Tail(es),
                 IF Truthy(Get(content, "examples"))
                 THEN Put(acc, Head(es).k, Get(content, "examples"))
                 ELSE IF Truthy(Get(content, "example"))
                 THEN Put(acc, Head(es).k,
                          Obj(<<KV("default", Obj(<<KV("value", Get(content, "example"))>>))>>))
                 ELSE acc)

\* The examples of one content mapping, or the sentence `none` when there
\* are none; a media type without a value makes content.examples throw
ExamplesOf(contentMap, none) ==
    IF \E i \in 1..Len(Entries(contentMap)) : IsNullish(Entries(contentMap)[i].v)
    THEN TypeError
    ELSE LET examples == ContentExamples(Entries(contentMap), Obj(<<>>))
         IN  IF Len(Keys(examples)) = 0 THEN Text(none) ELSE Yaml(examples)

\* `${x}` of an optional string argument
Shown(x) == IF x.t = "str" THEN x.v ELSE "undefined"

RequestExamples(d, path, method) ==
    IF ~Truthy(path) \/ ~Truthy(method)
    THEN Text("Path and method are required for request examples")
    ELSE LET operation == GetOpt(GetOpt(Get(d, "paths"), path.v), ToLowerCase(method.v))
             label == ToUpperCase(method.v) \o " " \o path.v
         IN  IF ~Truthy(operation) THEN Text("Operation " \o label \o " not found")
             ELSE IF ~Truthy(GetOpt(Get(operation, "requestBody"), "content"))
             THEN Text("No request body defined for " \o label)
             ELSE ExamplesOf(Get(Get(operation, "requestBody"), "content"),
                             "No examples found for " \o label \o " request")

\* A choice of the last response instead of the first one
LastResponse(responses) ==
    IF Len(Values(responses)) = 0 THEN Undef
    ELSE Values(responses)[Len(Values(responses))]

\* Object.values(operation.responses)[0]
FirstResponse(responses) ==
    IF Len(Values(responses)) = 0 THEN Undef ELSE Values(responses)[1]

ResponseExamples(d, path, method, statusCode) ==
    IF ~Truthy(path) \/ ~Truthy(method)
    THEN Text("Path and method are required for response examples")
    ELSE LET operation == GetOpt(GetOpt(Get(d, "paths"), path.v), ToLowerCase(method.v))
             label == ToUpperCase(method.v) \o " " \o path.v
         IN  IF ~Truthy(operation) THEN Text("Operation " \o label \o " not found")
             ELSE LET responses == Get(operation, "responses")
                  IN  IF ~Truthy(responses) THEN Text("No responses defined for " \o label)
                      ELSE LET responseObj ==
                                   IF Truthy(statusCode) THEN Get(responses, statusCode.v)
                                   ELSE FirstResponse(responses)
                           IN  IF ~Truthy(responseObj)
                               THEN Text("Response " \o Shown(statusCode) \o " not found for "
                                         \o label \o ". Available: "
                                         \o Join(Keys(responses), ", "))
                               ELSE IF ~Truthy(Get(responseObj, "content"))
                               THEN Text("No content defined in response")
                               ELSE ExamplesOf(Get(responseObj, "content"),
                                        "No examples found for " \o label \o " response"
                                        \o (IF Truthy(statusCode) THEN " " \o statusCode.v
                                            ELSE ""))

ComponentExamples(d, componentType, componentName) ==
    IF ~Truthy(componentType) \/ ~Truthy(componentName)
    THEN Text("Component type and name are required for component examples")
    ELSE LET component ==
                 GetOpt(GetOpt(Get(d, "components"), componentType.v), componentName.v)
         IN  IF ~Truthy(component)
             THEN Text("Component " \o componentType.v \o "." \o componentName.v \o " not found")
             ELSE LET examples ==
                          OrElse(Get(component, "examples"),
                                 IF Truthy(Get(component, "example"))
                                 THEN Obj(<<KV("default", Get(component, "example"))>>)
                                 ELSE Null)
                  IN  IF ~Truthy(examples)
                      THEN Text("No examples found for component " \o componentType.v
                                \o "." \o componentName.v)
                      ELSE Yaml(examples)

\* type: z.enum(["request", "response", "component"])
GetExamples(d, type, path, method, statusCode, componentType, componentName) ==
    IF /\ IsNullish(d)
       /\ IF type = "component" THEN Truthy(componentType) /\ Truthy(componentName)
          ELSE Truthy(path) /\ Truthy(method)
    THEN TypeError
    ELSE CASE type = "request" -> RequestExamples(d, path, method)
           [] type = "response" -> ResponseExamples(d, path, method, statusCode)
           [] type = "component" -> ComponentExamples(d, componentType, componentName)

----------------------------------------------------------------------------
(* Regular expressions: new RegExp(pattern, "i") and test *)

\* Case folding of one character (the "i" flag)
FoldChar(c) ==
    CASE c = "A" -> "a"
      [] c = "D" -> "d"
      [] c = "E" -> "e"
      [] c = "I" -> "i"
      [] c = "K" -> "k"
      [] c = "L" -> "l"
      [] c = "P" -> "p"
      [] c = "Y" -> "y"
      [] OTHER -> c

\* new RegExp(pattern, "i") throws SyntaxError on an unterminated group
Malformed(pattern) ==
    Cardinality({i \in 1..Len(Chars(pattern)) : Chars(pattern)[i] = "("})
        # Cardinality({i \in 1..Len(Chars(pattern)) : Chars(pattern)[i] = ")"})

\* One pattern character against one text character: "." is any character
AtomMatches(a, c) == a = "." \/ FoldChar(a) = FoldChar(c)

\* A test on one regular expression shared by all calls, whose matching
\* position outlives the call: after a search that found something, it finds
\* nothing
RegexTestShared(pattern, text) ==
    LET p == Chars(pattern)
        s == Chars(text)
    IN  /\ ~(last.req.tool = "search-schema" /\ last.res.kind = "yaml")
        /\ \E i \in 1..(Len(s) - Len(p) + 1) :
               \A j \in 1..Len(p) : AtomMatches(p[j], s[i + j - 1])

\* searchRegex.test(text): the pattern matches somewhere in the text
RegexTest(pattern, text) ==
    LET p == Chars(pattern)
        s == Chars(text)
    IN  \E i \in 1..(Len(s) - Len(p) + 1) :
            \A j \in 1..Len(p) : AtomMatches(p[j], s[i + j - 1])

\* searchRegex.test(x || "")
TestOr(pattern, x) == RegexTest(pattern, OrElse(x, Str("")).v)

----------------------------------------------------------------------------
(* search-schema *)

\* operation.tags && operation.tags.some(tag => searchRegex.test(tag))
TagsMatch(pattern, operation) ==
    /\ Truthy(Get(operation, "tags"))
    /\ \E i \in 1..Len(Elems(Get(operation, "tags"))) :
           RegexTest(pattern, Elems(Get(operation, "tags"))[i].v)

OperationMatches(pattern, operation) ==
    \/ TestOr(pattern, Get(operation, "summary"))
    \/ TestOr(pattern, Get(operation, "description"))
    \/ TagsMatch(pattern, operation)

\* The defined methods in the order the path item has its keys
DefinedMethodsAsWritten(pathItem) ==
    SelectSeq(Keys(pathItem),
              LAMBDA key : key \in Range(HttpMethods) /\ Truthy(Get(pathItem, key)))

\* The methods of the fixed list that are defined (truthy) on a path item
DefinedMethods(pathItem) ==
    SelectSeq(HttpMethods, LAMBDA method : Truthy(Get(pathItem, method)))

\* results.operations entries of one path, in the fixed method order
PathOperations(pattern, path, pathItem) ==
    LET ms == SelectSeq(DefinedMethods(pathItem),
                        LAMBDA method : OperationMatches(pattern, Get(pathItem, method)))
    IN  [i \in 1..Len(ms) |-> Str(ToUpperCase(ms[i]) \o " " \o path)]

\* results.parameters entries of one operation
OperationParameters(pattern, path, method, operation) ==
    LET ps == SelectSeq(Elems(OrElse(Get(operation, "parameters"), Arr(<<>>))),
                        LAMBDA param : \/ TestOr(pattern, Get(param, "name"))
                                       \/ TestOr(pattern, Get(param, "description")))
    IN  [i \in 1..Len(ps) |->
            Str(Shown(Get(ps[i], "name")) \o " (" \o ToUpperCase(method) \o " " \o path \o ")")]

RECURSIVE PathParameters(_, _, _, _)
PathParameters(pattern, path, pathItem, methods) ==
    IF methods = <<>> THEN <<>>
    ELSE OperationParameters(pattern, path, Head(methods), Get(pathItem, Head(methods)))
         \o PathParameters(pattern, path, pathItem, Tail(methods))

\* Flatten the per-path (per-category) match lists in scan order
RECURSIVE Flatten(_)
Flatten(ss) == IF ss = <<>> THEN <<>> ELSE Head(ss) \o Flatten(Tail(ss))

\* results.components entries of one component category
CategoryMatches(pattern, type, typeObj) ==
    IF ~Truthy(typeObj) \/ typeObj.t \notin {"obj", "arr"} THEN <<>>
    ELSE LET es == SelectSeq(Entries(typeObj),
                             LAMBDA e : \/ RegexTest(pattern, e.k)
                                        \/ TestOr(pattern, Get(e.v, "description")))
         IN  [i \in 1..Len(es) |-> Str(type \o "." \o es[i].k)]

\* A property read on null or undefined somewhere in the scan (a component
\* or scheme without a value is only read when its name did not match)
SearchThrows(d, pattern) ==
    \/ IsNullish(d)
    \/ LET ps == Entries(OrElse(Get(d, "paths"), Obj(<<>>)))
       IN  \E i \in 1..Len(ps) :
               \/ IsNullish(ps[i].v)
               \/ \E m \in Range(DefinedMethods(ps[i].v)) :
                      \E q \in Range(Elems(OrElse(Get(Get(ps[i].v, m), "parameters"),
                                                  Arr(<<>>)))) : IsNullish(q)
    \/ LET cs == Entries(OrElse(Get(d, "components"), Obj(<<>>)))
       IN  \E i \in 1..Len(cs) :
               /\ Truthy(cs[i].v) /\ cs[i].v.t \in {"obj", "arr"}
               /\ \E e \in Range(Entries(cs[i].v)) :
                      IsNullish(e.v) /\ ~RegexTest(pattern, e.k)
    \/ LET ss == Entries(OrElse(Get(OrElse(Get(d, "components"), Obj(<<>>)),
                                    "securitySchemes"), Obj(<<>>)))
       IN  \E i \in 1..Len(ss) : IsNullish(ss[i].v) /\ ~RegexTest(pattern, ss[i].k)

\* The five result lists before the empty ones are deleted, in the order the
\* results object declares them
SearchResults(d, pattern) ==
    LET ps == Entries(OrElse(Get(d, "paths"), Obj(<<>>)))
        components == OrElse(Get(d, "components"), Obj(<<>>))
        cs == Entries(components)
        ss == SelectSeq(Entries(OrElse(Get(components, "securitySchemes"), Obj(<<>>))),
                        LAMBDA e : \/ RegexTest(pattern, e.k)
                                   \/ TestOr(pattern, Get(e.v, "description")))
        matched == SelectSeq(ps, LAMBDA e : RegexTest(pattern, e.k))
    IN  <<KV("paths", Arr([i \in 1..Len(matched) |-> Str(matched[i].k)])),
          KV("operations",
             Arr(Flatten([i \in 1..Len(ps) |-> PathOperations(pattern, ps[i].k, ps[i].v)]))),
          KV("components",
             Arr(Flatten([i \in 1..Len(cs) |-> CategoryMatches(pattern, cs[i].k, cs[i].v)]))),
          KV("parameters",
             Arr(Flatten([i \in 1..Len(ps) |->
                     PathParameters(pattern, ps[i].k, ps[i].v, DefinedMethods(ps[i].v))]))),
          KV("securitySchemes", Arr([i \in 1..Len(ss) |-> Str(ss[i].k)]))>>

\* for (const key of Object.keys(results)) if empty, delete results[key]
DeleteEmpty(results) == SelectSeq(results, LAMBDA e : Len(e.v.v) # 0)

\* A search that takes a pattern it cannot compile for one that matches
\* nothing
SearchSchemaLenient(d, pattern) ==
    IF Malformed(pattern) THEN Text("No matches found for \"" \o pattern \o "\"")
    ELSE IF SearchThrows(d, pattern) THEN TypeError
    ELSE LET results == DeleteEmpty(SearchResults(d, pattern))
         IN  IF Len(results) = 0 THEN Text("No matches found for \"" \o pattern \o "\"")
             ELSE Yaml(Obj(results))

SearchSchema(d, pattern) ==
    IF Malformed(pattern) THEN Throw("SyntaxError")
    ELSE IF SearchThrows(d, pattern) THEN TypeError
    ELSE LET results == DeleteEmpty(SearchResults(d, pattern))
         IN  IF Len(results) = 0 THEN Text("No matches found for \"" \o pattern \o "\"")
             ELSE Yaml(Obj(results))

----------------------------------------------------------------------------
(* Bounds, and the documents and arguments the model draws from *)

\* Longest parameters list of a path item or an operation
MaxParams == 2

\* Most entries of an operation's responses mapping
MaxResponses == 3

\* Most method keys of a generated path item
MaxMethods == 2

SeqsUpTo(S, n) == UNION {[1..k -> S] : k \in 0..n}

DistinctSeqs(S, n) ==
    {s \in SeqsUpTo(S, n) : \A i, j \in DOMAIN s : i # j => s[i] # s[j]}

Param(name, in) == Obj(<<KV("name", Str(name)), KV("in", Str(in))>>)

ParamPool == {Param("petId", "path"), Param("petId", "query")}

\* A parameters field: absent, without a value, or a list
ParamChoices == {Undef, Null} \cup {Arr(s) : s \in SeqsUpTo(ParamPool, MaxParams)}

\* A mapping node, leaving out the fields that are absent
Node(es) == Obj(SelectSeq(es, LAMBDA e : e.v.t # "undef"))

OpList ==
    Obj(<<KV("summary", Str("List pets")), KV("tags", Arr(<<Str("zoo")>>)),
          KV("parameters", Arr(<<Param("limit", "query")>>))>>)

OpBare == Obj(<<KV("description", Str("a pet"))>>)

OpEmptySummary == Obj(<<KV("summary", Str("")), KV("description", Str("Add"))>>)

PetExample == Obj(<<KV("id", Num(1)), KV("name", Str("Fluffy"))>>)

\* One response, told apart by its description and its example
RespNode(k) ==
    Obj(<<KV("description", Str(k)),
          KV("content", Obj(<<KV("application/json", Obj(<<KV("example", Str(k))>>))>>))>>)

StatusKeys == {"200", "404", "default"}

\* responses mappings: every order of every choice of keys, the "200" entry
\* with or without a value
ResponsesChoices ==
    {Undef, Null} \cup
    {Obj([i \in DOMAIN s |-> KV(s[i], IF s[i] \in nulls THEN Null ELSE RespNode(s[i]))]) :
        s \in DistinctSeqs(StatusKeys, MaxResponses), nulls \in {{}, {"200"}}}

\* A media type's node: what it says about examples
ExampleNodes ==
    {Null,
     Obj(<<>>),
     Obj(<<KV("example", PetExample)>>),
     Obj(<<KV("example", Num(0))>>),
     Obj(<<KV("example", Bool(FALSE))>>),
     Obj(<<KV("example", Str(""))>>),
     Obj(<<KV("examples", Obj(<<KV("fluffy", Obj(<<KV("value", PetExample)>>))>>))>>),
     Obj(<<KV("examples", Obj(<<KV("fluffy", Obj(<<KV("value", PetExample)>>))>>)),
           KV("example", Num(1))>>)}

ContentChoices ==
    {Obj(<<KV("application/json", n)>>) : n \in ExampleNodes} \cup
    {Obj(<<KV("text/plain", Obj(<<KV("example", Str("zoo"))>>)), KV("application/json", n)>>) :
        n \in ExampleNodes}

Paths1(pathItem) == Obj(<<KV("/pets", pathItem)>>)

DocOf(paths, components) == Node(<<KV("paths", paths), KV("components", components)>>)

BaseComponents ==
    Obj(<<KV("schemas", Obj(<<KV("Pet", Obj(<<KV("description", Str("a pet"))>>))>>)),
          KV("securitySchemes",
             Obj(<<KV("key", Obj(<<KV("type", Str("apiKey")), KV("in", Str("header")),
                                   KV("name", Str("X-Key")),
                                   KV("description", Str("API key"))>>))>>))>>)

\* Documents that vary the two parameters lists
ParamDocs ==
    {DocOf(Paths1(Node(<<KV("parameters", shared),
                         KV("get", Node(<<KV("summary", Str("List pets")),
                                          KV("parameters", own)>>))>>)), Undef) :
        shared \in ParamChoices, own \in ParamChoices}

\* Documents that vary the responses mapping
ResponseDocs ==
    {DocOf(Paths1(Obj(<<KV("get", Node(<<KV("responses", r)>>))>>)), Undef) :
        r \in ResponsesChoices}

\* Documents that vary where examples are written
ExampleDocs ==
    {DocOf(Paths1(Obj(<<KV("post",
               Obj(<<KV("requestBody", Obj(<<KV("content", c)>>)),
                     KV("responses", Obj(<<KV("200", Obj(<<KV("content", c)>>))>>))>>))>>)),
           Obj(<<KV("schemas", Obj(<<KV("Pet", c.v[Len(c.v)].v)>>))>>)) :
        c \in ContentChoices}
    \cup
    {DocOf(Paths1(Obj(<<KV("post", Node(<<KV("requestBody", b)>>))>>)), Undef) :
        b \in {Null, Obj(<<KV("description", Str("Add"))>>)}}

MethodKeyPool == {"get", "post", "GET"}

OperationPool == {OpList, OpBare, Null}

\* Path items: every order of up to MaxMethods method keys, each with an
\* operation of the pool, after an optional shared summary and parameters
PathItems ==
    {Obj([i \in DOMAIN p[1] |-> KV(p[1][i], p[2][i])]) :
        p \in {q \in DistinctSeqs(MethodKeyPool, MaxMethods)
                       \X SeqsUpTo(OperationPool, MaxMethods) : Len(q[1]) = Len(q[2])}}
    \cup
    {Null,
     Obj(<<KV("summary", Str("Add")), KV("parameters", Arr(<<Param("petId", "path")>>)),
           KV("get", OpEmptySummary)>>)}

SmallPathItems ==
    {Null, Obj(<<>>), Obj(<<KV("get", OpList)>>),
     Obj(<<KV("post", OpBare), KV("get", OpList)>>)}

\* Documents that vary the path items and their order
PathDocs ==
    {DocOf(Paths1(i), BaseComponents) : i \in PathItems}
    \cup {DocOf(Obj(<<KV("/pets", i), KV("/x", j)>>), Undef) :
            i \in SmallPathItems, j \in SmallPathItems}
    \cup {DocOf(Obj(<<KV("/x", i), KV("/pets", j)>>), Undef) :
            i \in SmallPathItems, j \in SmallPathItems}
    \cup {DocOf(p, BaseComponents) : p \in {Undef, Null, Obj(<<>>)}}

Scheme(type, rest) == Obj(<<KV("type", Str(type))>> \o rest)

ComponentsChoices ==
    {Undef, Null, Obj(<<>>),
     Obj(<<KV("schemas", Null)>>),
     Obj(<<KV("schemas", Obj(<<KV("Pet", Null)>>))>>),
     Obj(<<KV("schemas", Obj(<<KV("key", Obj(<<>>)), KV("Pet", Obj(<<>>))>>))>>),
     Obj(<<KV("securitySchemes", Obj(<<KV("key", Null)>>))>>),
     Obj(<<KV("securitySchemes", Obj(<<KV("Pet", Null)>>))>>),
     Obj(<<KV("securitySchemes", Str("zoo"))>>),
     Obj(<<KV("securitySchemes",
              Obj(<<KV("key", Scheme("http", <<KV("scheme", Str("bearer"))>>)),
                    KV("Pet", Scheme("oauth2",
                                     <<KV("flows", Obj(<<KV("implicit", Obj(<<>>))>>))>>))>>))>>),
     Obj(<<KV("securitySchemes", Obj(<<KV("Pet", Scheme("oauth2", <<>>))>>)),
           KV("schemas", Obj(<<KV("Pet", Obj(<<KV("example", PetExample)>>))>>))>>)}

\* Documents that vary the components
ComponentDocs ==
    {DocOf(p, c) : p \in {Undef, Paths1(Obj(<<KV("get", OpList)>>))}, c \in ComponentsChoices}

\* The documents a file may hold; an empty file loads as undefined
Docs == ParamDocs \cup ResponseDocs \cup ExampleDocs \cup PathDocs \cup ComponentDocs
        \cup {Undef}

\* What the document file may be: unreadable, unparsable, or a YAML tree
Files ==
    {[state |-> "missing", tree |-> Undef], [state |-> "unparsable", tree |-> Undef]}
    \cup {[state |-> "ok", tree |-> d] : d \in Docs}

PathArgs == {"/pets", "/x", "constructor"}

MethodArgs == {"get", "GET", "post", "parameters"}

StatusArgs == {Undef, Str("404"), Str("500")}

ExampleStatusArgs == {Undef, Str("404")}

TypeArgs == {"schemas", "securitySchemes", "none"}

NameArgs == {"Pet", "key"}

PatternArgs == {"pet", "p.t", "zzz", "KEY", "add", "(", "0", ""}

Optional(S) == {Undef} \cup {Str(x) : x \in S}

----------------------------------------------------------------------------
(* The server: one tool call at a time *)

NoReq ==
    [tool |-> "none", path |-> Undef, method |-> Undef, statusCode |-> Undef,
     type |-> Undef, componentType |-> Undef, componentName |-> Undef, pattern |-> Undef]

\* Nothing has been sent on the transport yet
NoLast == [req |-> NoReq, res |-> NoRes, file |-> [state |-> "none", tree |-> Undef]]

Init ==
    /\ file \in Files
    /\ alive = TRUE
    /\ req = NoReq
    /\ doc = Undef
    /\ res = NoRes
    /\ last = NoLast

\* loadSchema: what the handler gets from the file as it is now
LoadSchema(f) == YamlLoad(f.tree)

\* loadSchema returns: the file can be read and parsed.  Otherwise it logs
\* the error and ends the process (process.exit(1))
CanLoad == file.state = "ok"

\* A loader that keeps the document of the call answered before
LoadedCached ==
    IF ~CanLoad THEN Undef
    ELSE IF last.file.state = "ok" THEN LoadSchema(last.file)
    ELSE LoadSchema(file)

\* The document the handler works on
Loaded == IF CanLoad THEN LoadSchema(file) ELSE Undef

\* What the call comes to: the handler's answer for the loaded document, or
\* no answer when the process ended in loadSchema
Answer(Handler(_)) == IF CanLoad THEN Handler(Loaded) ELSE NoRes

\* The server takes a call when it runs and is not answering another
Ready == alive /\ res = NoRes

CallListEndpoints ==
    /\ Ready
    /\ req' = [NoReq EXCEPT !.tool = "list-endpoints"]
    /\ doc' = Loaded
    /\ res' = Answer(ListEndpoints)
    /\ alive' = CanLoad
    /\ UNCHANGED <<file, last>>

CallGetEndpoint ==
    \E path \in PathArgs, method \in MethodArgs :
        /\ Ready
        /\ req' = [NoReq EXCEPT !.tool = "get-endpoint", !.path = Str(path),
                                !.method = Str(method)]
        /\ doc' = Loaded
        /\ res' = Answer(LAMBDA d : GetEndpoint(d, path, method))
        /\ alive' = CanLoad
        /\ UNCHANGED <<file, last>>

CallGetRequestBody ==
    \E path \in PathArgs, method \in MethodArgs :
        /\ Ready
        /\ req' = [NoReq EXCEPT !.tool = "get-request-body", !.path = Str(path),
                                !.method = Str(method)]
        /\ doc' = Loaded
        /\ res' = Answer(LAMBDA d : GetRequestBody(d, path, method))
        /\ alive' = CanLoad
        /\ UNCHANGED <<file, last>>

CallGetResponseSchema ==
    \E path \in PathArgs, method \in MethodArgs, statusCode \in StatusArgs :
        /\ Ready
        /\ req' = [NoReq EXCEPT !.tool = "get-response-schema", !.path = Str(path),
                                !.method = Str(method), !.statusCode = statusCode]
        /\ doc' = Loaded
        /\ res' = Answer(LAMBDA d :
                      GetResponseSchema(d, path, method, DefaultStatus(statusCode)))
        /\ alive' = CanLoad
        /\ UNCHANGED <<file, last>>

CallGetPathParameters ==
    \E path \in PathArgs, method \in Optional(MethodArgs) :
        /\ Ready
        /\ req' = [NoReq EXCEPT !.tool = "get-path-parameters", !.path = Str(path),
                                !.method = method]
        /\ doc' = Loaded
        /\ res' = Answer(LAMBDA d : GetPathParameters(d, path, method))
        /\ alive' = CanLoad
        /\ UNCHANGED <<file, last>>

CallListComponents ==
    /\ Ready
    /\ req' = [NoReq EXCEPT !.tool = "list-components"]
    /\ doc' = Loaded
    /\ res' = Answer(ListComponents)
    /\ alive' = CanLoad
    /\ UNCHANGED <<file, last>>

CallGetComponent ==
    \E type \in TypeArgs, name \in NameArgs :
        /\ Ready
        /\ req' = [NoReq EXCEPT !.tool = "get-component", !.componentType = Str(type),
                                !.componentName = Str(name)]
        /\ doc' = Loaded
        /\ res' = Answer(LAMBDA d : GetComponent(d, type, name))
        /\ alive' = CanLoad
        /\ UNCHANGED <<file, last>>

CallListSecuritySchemes ==
    /\ Ready
    /\ req' = [NoReq EXCEPT !.tool = "list-security-schemes"]
    /\ doc' = Loaded
    /\ res' = Answer(ListSecuritySchemes)
    /\ alive' = CanLoad
    /\ UNCHANGED <<file, last>>

\* The arguments of a get-examples call: those of its mode, the others left
\* out
ExampleCalls ==
    {[NoReq EXCEPT !.tool = "get-examples", !.type = Str("request"),
                   !.path = path, !.method = method] :
        path \in Optional(PathArgs), method \in Optional(MethodArgs)}
    \cup
    {[NoReq EXCEPT !.tool = "get-examples", !.type = Str("response"),
                   !.path = path, !.method = method, !.statusCode = statusCode] :
        path \in Optional(PathArgs), method \in Optional(MethodArgs),
        statusCode \in ExampleStatusArgs}
    \cup
    {[NoReq EXCEPT !.tool = "get-examples", !.type = Str("component"),
                   !.componentType = type, !.componentName = name] :
        type \in Optional(TypeArgs), name \in Optional(NameArgs)}

CallGetExamples ==
    \E r \in ExampleCalls :
        /\ Ready
        /\ req' = r
        /\ doc' = Loaded
        /\ res' = Answer(LAMBDA d :
                      GetExamples(d, r.type.v, r.path, r.method, r.statusCode,
                                  r.componentType, r.componentName))
        /\ alive' = CanLoad
        /\ UNCHANGED <<file, last>>

CallSearchSchema ==
    \E pattern \in PatternArgs :
        /\ Ready
        /\ req' = [NoReq EXCEPT !.tool = "search-schema", !.pattern = Str(pattern)]
        /\ doc' = Loaded
        /\ res' = Answer(LAMBDA d : SearchSchema(d, pattern))
        /\ alive' = CanLoad
        /\ UNCHANGED <<file, last>>

\* The answer is handed to the transport and the server waits for the next
\* call
Respond ==
    /\ alive
    /\ res # NoRes
    /\ req' = NoReq
    /\ doc' = Undef
    /\ res' = NoRes
    /\ UNCHANGED <<file, alive, last>>

Next ==
    \/ CallListEndpoints
    \/ CallGetEndpoint
    \/ CallGetRequestBody
    \/ CallGetResponseSchema
    \/ CallGetPathParameters
    \/ CallListComponents
    \/ CallGetComponent
    \/ CallListSecuritySchemes
    \/ CallGetExamples
    \/ CallSearchSchema
    \/ Respond

Spec == Init /\ [][Next]_vars

----------------------------------------------------------------------------
(* A session: calls one after another while the file is edited from outside *)

\* The files of a session: unreadable, unparsable, and two documents
SessionFiles ==
    {[state |-> "missing", tree |-> Undef], [state |-> "unparsable", tree |-> Undef],
     [state |-> "ok", tree |-> DocOf(Paths1(Obj(<<KV("get", OpList)>>)), BaseComponents)],
     [state |-> "ok",
      tree |-> DocOf(Obj(<<KV("/x", Obj(<<KV("post", OpBare), KV("get", OpList)>>))>>),
                     Undef)]}

InitSession ==
    /\ file \in SessionFiles
    /\ alive = TRUE
    /\ req = NoReq
    /\ doc = Undef
    /\ res = NoRes
    /\ last = NoLast

\* The answer is handed to the transport, which keeps what it sent last (the
\* call, its answer and the file content it was computed from), and the
\* server waits for the next call
Reply ==
    /\ alive
    /\ res # NoRes
    /\ last' = [req |-> req, res |-> res, file |-> file]
    /\ req' = NoReq
    /\ doc' = Undef
    /\ res' = NoRes
    /\ UNCHANGED <<file, alive>>

\* The file is edited, removed or written anew from outside, between two
\* calls (a handler reads the file and computes its answer in one
\* synchronous step), whether the server runs or not
EditFile ==
    /\ res = NoRes
    /\ file' \in SessionFiles \ {file}
    /\ UNCHANGED <<alive, req, doc, res, last>>

NextSession ==
    \/ CallListEndpoints
    \/ CallGetEndpoint
    \/ CallGetRequestBody
    \/ CallGetResponseSchema
    \/ CallGetPathParameters
    \/ CallListComponents
    \/ CallGetComponent
    \/ CallListSecuritySchemes
    \/ CallGetExamples
    \/ CallSearchSchema
    \/ Reply
    \/ EditFile

SpecSession == InitSession /\ [][NextSession]_vars

----------------------------------------------------------------------------
(* The claims.  A call's arguments are in req, the document its handler     *)
(* loaded in doc, and its answer in res until Respond hands it over.        *)

Answered(tool) == req.tool = tool /\ res # NoRes

\* The mapping under doc.paths (undefined when the root has none)
DocPaths == GetOpt(doc, "paths")

\* The path item the call's path names, when doc.paths has that very key
HasPathItem ==
    /\ req.path.t = "str"
    /\ HasOwn(DocPaths, req.path.v)
    /\ OwnValue(DocPaths, req.path.v).t = "obj"

ThePathItem == OwnValue(DocPaths, req.path.v)

\* The call's method, lower-cased, is one of the fixed set and the path item
\* defines an operation under it
HasOperation ==
    /\ HasPathItem
    /\ req.method.t = "str"
    /\ ToLowerCase(req.method.v) \in Range(HttpMethods)
    /\ HasOwn(ThePathItem, ToLowerCase(req.method.v))
    /\ OwnValue(ThePathItem, ToLowerCase(req.method.v)).t = "obj"

TheOperation == OwnValue(ThePathItem, ToLowerCase(req.method.v))

ResolvingTools == {"get-endpoint", "get-request-body", "get-response-schema"}

(* C1: in get-endpoint, get-request-body and get-response-schema, on a path *)
(* that is a key of doc.paths, only a method whose lower-cased name is one  *)
(* of the fixed set and is defined on the path item resolves; any other     *)
(* method, a non-method key such as parameters included, is answered        *)
(* "Method ... not found".  The code reads pathItem[method.toLowerCase()]   *)
(* without looking at the fixed set, so this fails.                         *)
C1_OnlyFixedMethodsResolve ==
    (req.tool \in ResolvingTools /\ res.kind \in {"yaml", "text"} /\ HasPathItem
        /\ ~(/\ ToLowerCase(req.method.v) \in Range(HttpMethods)
             /\ HasOwn(ThePathItem, ToLowerCase(req.method.v))))
    => res = MethodNotFound(req.path.v, req.method.v)

(* C2: when the path is a key of doc.paths and the path item defines an     *)
(* operation under the lower-cased method, get-endpoint answers a record    *)
(* whose path is the input path and whose method is the input method in     *)
(* upper case, whatever the case of the input.                              *)
C2_GetEndpointEchoes ==
    (Answered("get-endpoint") /\ HasOperation) =>
        /\ res.kind = "yaml"
        /\ HasOwn(res.val, "path") /\ OwnValue(res.val, "path") = req.path
        /\ HasOwn(res.val, "method")
        /\ OwnValue(res.val, "method").v \in {"GET", "POST", "PUT", "DELETE", "PATCH",
                                              "OPTIONS", "HEAD"}
        /\ ToLowerCase(OwnValue(res.val, "method").v) = ToLowerCase(req.method.v)

\* An upper-case method argument resolved the operation written in lower case
C2_Witness ==
    /\ Answered("get-endpoint") /\ HasOperation
    /\ req.method = Str("GET")
    /\ res.kind = "yaml"
    /\ OwnValue(res.val, "method") = Str("GET")
    /\ HasOwn(res.val, "summary")

\* A mapping entry that is written with a value
HasNode(m, k) == HasOwn(m, k) /\ ~IsNullish(OwnValue(m, k))

(* C3: for every document list-endpoints answers a mapping whose keys are   *)
(* the keys of doc.paths (none when paths is absent), each path listing     *)
(* the methods of the fixed set among its path item's keys, each with the   *)
(* operation's summary, or "No summary" when it has none.  A path item or   *)
(* an operation written without a value makes the handler throw (C10).      *)
C3_ListEndpointsShape ==
    (Answered("list-endpoints") /\ doc.t = "obj") =>
        /\ res.kind = "yaml"
        /\ Range(OwnKeys(res.val)) = Range(OwnKeys(DocPaths))
        /\ \A p \in Range(OwnKeys(DocPaths)) :
               LET item == OwnValue(DocPaths, p)
                   listed == OwnValue(res.val, p)
                   written == {k \in Range(OwnKeys(item)) :
                                  ToLowerCase(k) \in Range(HttpMethods)}
                   Summary(k) == IF Truthy(GetOpt(OwnValue(item, k), "summary"))
                                 THEN OwnValue(OwnValue(item, k), "summary")
                                 ELSE Str("No summary")
               IN  /\ Range(OwnKeys(listed)) = {ToUpperCase(k) : k \in written}
                   /\ \A m \in Range(OwnKeys(listed)) :
                          \E k \in written : /\ ToUpperCase(k) = m
                                             /\ OwnValue(listed, m) = Summary(k)

\* The responses mapping of the operation the call names
TheResponses == OwnValue(TheOperation, "responses")

HasResponses ==
    HasOperation /\ HasOwn(TheOperation, "responses") /\ TheResponses.t = "obj"

\* The status code get-response-schema looks up
AskedStatus == IF req.statusCode = Undef THEN "200" ELSE req.statusCode.v

Written(n, k) == IF HasOwn(n, k) THEN OwnValue(n, k) ELSE Undef

WrittenResponses ==
    Written(Written(Written(Written(file.tree, "paths"), req.path.v),
                    ToLowerCase(req.method.v)), "responses")

Position(s, x) == CHOOSE i \in DOMAIN s : s[i] = x

\* Status codes that are whole numbers first, ascending, then the other keys
\* in the order `keys` has them
NumbersFirst(keys) ==
    CHOOSE s \in [DOMAIN keys -> Range(keys)] :
        /\ Range(s) = Range(keys)
        /\ \A i, j \in DOMAIN s :
               i < j =>
                   \/ s[i] \in IndexKeys /\ s[j] \notin IndexKeys
                   \/ s[i] \in IndexKeys /\ s[j] \in IndexKeys /\ IndexOf(s[i]) < IndexOf(s[j])
                   \/ /\ s[i] \notin IndexKeys /\ s[j] \notin IndexKeys
                      /\ Position(keys, s[i]) < Position(keys, s[j])

\* get-response-schema found neither the asked status nor a default
NoResponseFound ==
    /\ Answered("get-response-schema") /\ HasResponses
    /\ ~HasNode(TheResponses, AskedStatus)
    /\ ~HasNode(TheResponses, "default")

NoResponseText(keys) ==
    "No response for status code " \o AskedStatus \o " (or default) found for "
    \o req.method.v \o " " \o req.path.v \o ".\nAvailable status codes: "
    \o Join(keys, ", ")

(* C5 as claimed: the diagnostic lists the responses' keys comma-joined in  *)
(* the order the document writes them.                                      *)
C5_KeysInDocumentOrder ==
    NoResponseFound => res = Text(NoResponseText(OwnKeys(WrittenResponses)))

(* C5 as amended: the diagnostic lists exactly the responses' keys,         *)
(* comma-joined, the whole-number status codes first in ascending order     *)
(* and then the other keys in document order.                               *)
C5_KeysNumbersFirst ==
    NoResponseFound => res = Text(NoResponseText(NumbersFirst(OwnKeys(WrittenResponses))))

\* The document writes 404 before 200 and the diagnostic was answered
C5_Witness ==
    /\ NoResponseFound
    /\ OwnKeys(WrittenResponses) = <<"404", "200">>
    /\ req.statusCode = Str("500")
    /\ res.kind = "text"

\* The parameters lists the claim counts
SharedParams ==
    IF HasOwn(ThePathItem, "parameters") /\ OwnValue(ThePathItem, "parameters").t = "arr"
    THEN OwnValue(ThePathItem, "parameters").v
    ELSE <<>>

MethodParams ==
    IF HasOperation /\ HasOwn(TheOperation, "parameters")
       /\ OwnValue(TheOperation, "parameters").t = "arr"
    THEN OwnValue(TheOperation, "parameters").v
    ELSE <<>>

(* C6: for a path that has a path item, get-path-parameters answers the     *)
(* path item's parameters in their order followed by the method's           *)
(* parameters in their order, as many entries as the two lists have         *)
(* together, entries of the same name all kept; when both are empty it      *)
(* answers the "No parameters found" sentence.                              *)
C6_ParametersConcatenated ==
    (Answered("get-path-parameters") /\ HasPathItem) =>
        IF Len(SharedParams) + Len(MethodParams) = 0
        THEN res = Text("No parameters found for "
                        \o (IF req.method = Undef THEN ""
                            ELSE ToUpperCase(req.method.v) \o " ")
                        \o req.path.v)
        ELSE /\ res.kind = "yaml"
             /\ res.val.t = "arr"
             /\ Len(res.val.v) = Len(SharedParams) + Len(MethodParams)
             /\ SubSeq(res.val.v, 1, Len(SharedParams)) = SharedParams
             /\ SubSeq(res.val.v, Len(SharedParams) + 1, Len(res.val.v)) = MethodParams

\* A shared parameter and a method parameter of the same name are both in
\* the answer
C6_Witness ==
    /\ Answered("get-path-parameters") /\ HasPathItem
    /\ Len(SharedParams) >= 1 /\ Len(MethodParams) >= 1
    /\ Get(SharedParams[1], "name") = Get(MethodParams[1], "name")
    /\ SharedParams[1] # MethodParams[1]
    /\ res.kind = "yaml"
    /\ Len(res.val.v) = Len(SharedParams) + Len(MethodParams)

\* The five categories of a search and the matches of each
SearchPattern == req.pattern.v

MatchedCategories ==
    {e.k : e \in {f \in Range(SearchResults(doc, SearchPattern)) : Len(f.v.v) > 0}}

(* C7: for every document and valid pattern the search-schema answer has a  *)
(* category key exactly when the category has a match, no category is an    *)
(* empty sequence, and when no category has a match the answer is the one   *)
(* sentence naming the pattern.  A path item written without a value makes  *)
(* the scan throw instead (C10).                                            *)
C7_CategoriesOmittedWhenEmpty ==
    (Answered("search-schema") /\ ~Malformed(SearchPattern) /\ doc.t = "obj") =>
        IF MatchedCategories = {}
        THEN res = Text("No matches found for \"" \o SearchPattern \o "\"")
        ELSE /\ res.kind = "yaml"
             /\ Range(OwnKeys(res.val)) = MatchedCategories
             /\ \A k \in MatchedCategories : Len(OwnValue(res.val, k).v) > 0

\* What one node says about examples, by the rule of spec 4.2.1
HasExamples(node) == HasOwn(node, "examples") /\ OwnValue(node, "examples").t = "obj"

Contributes(node) == HasExamples(node) \/ HasOwn(node, "example")

Contribution(node) ==
    IF HasExamples(node) THEN OwnValue(node, "examples")
    ELSE Obj(<<KV("default", Obj(<<KV("value", OwnValue(node, "example"))>>))>>)

\* The union over the media types of a content mapping
ContentUnion(content) ==
    LET es == SelectSeq(content.v, LAMBDA e : Contributes(e.v))
    IN  Obj([i \in 1..Len(es) |-> KV(es[i].k, Contribution(es[i].v))])

\* A content mapping whose media types are all written with a value
IsContent(content) ==
    content.t = "obj" /\ \A i \in 1..Len(content.v) : content.v[i].v.t = "obj"

ExamplesAnswerFor(content) ==
    IF Len(ContentUnion(content).v) = 0 THEN res.kind = "text"
    ELSE res.kind = "yaml" /\ res.val = Dump(ContentUnion(content))

RequestContent == GetOpt(GetOpt(TheOperation, "requestBody"), "content")

TheComponent ==
    GetOpt(GetOpt(GetOpt(doc, "components"), req.componentType.v), req.componentName.v)

(* C8: in get-examples every mode applies one rule to each node it          *)
(* examines: an examples map is used as it is; else an example value x,     *)
(* whatever it is (0, false and "" included), gives {default: {value: x}};  *)
(* else nothing; the answer is the union, or a sentence when the union is   *)
(* empty.  The code tests the example for truthiness and, for a component,  *)
(* answers {default: x}.                                                    *)
C8_OneExampleRule ==
    /\ (Answered("get-examples") /\ req.type = Str("request") /\ HasOperation
           /\ IsContent(RequestContent))
         => ExamplesAnswerFor(RequestContent)
    /\ (Answered("get-examples") /\ req.type = Str("response") /\ HasResponses
           /\ req.statusCode # Undef /\ HasNode(TheResponses, req.statusCode.v)
           /\ IsContent(GetOpt(OwnValue(TheResponses, req.statusCode.v), "content")))
         => ExamplesAnswerFor(OwnValue(OwnValue(TheResponses, req.statusCode.v), "content"))
    /\ (Answered("get-examples") /\ req.type = Str("component")
           /\ req.componentType # Undef /\ req.componentName # Undef
           /\ TheComponent.t = "obj")
         => IF Contributes(TheComponent)
            THEN res.kind = "yaml" /\ res.val = Dump(Contribution(TheComponent))
            ELSE res.kind = "text"

\* get-examples in response mode without a status code, on an operation
\* whose responses mapping has entries
FirstResponseAsked ==
    /\ Answered("get-examples") /\ req.type = Str("response")
    /\ req.statusCode = Undef
    /\ HasResponses
    /\ Len(OwnKeys(TheResponses)) > 0

ResponseLabel == ToUpperCase(req.method.v) \o " " \o req.path.v

\* The answer is the one for the response under key k
ExaminedResponse(k) ==
    LET node == OwnValue(TheResponses, k)
    IN  IF IsNullish(node)
        THEN res = Text("Response undefined not found for " \o ResponseLabel
                        \o ". Available: " \o Join(OwnKeys(TheResponses), ", "))
        ELSE IF ~Truthy(Get(node, "content"))
        THEN res = Text("No content defined in response")
        ELSE res = ExamplesOf(Get(node, "content"),
                              "No examples found for " \o ResponseLabel \o " response")

(* C9 as claimed: without a statusCode the response examined is the first   *)
(* entry of the responses mapping in the order the document writes them.    *)
C9_FirstWrittenResponse ==
    FirstResponseAsked => ExaminedResponse(OwnKeys(WrittenResponses)[1])

(* C9 as amended: without a statusCode the response examined is the entry   *)
(* with the lowest whole-number status code when the mapping has one, and   *)
(* otherwise the entry the document writes first.                           *)
C9_LowestStatusFirst ==
    FirstResponseAsked => ExaminedResponse(NumbersFirst(OwnKeys(WrittenResponses))[1])

\* The document writes default before 200, and the 200 response was examined
C9_Witness ==
    /\ FirstResponseAsked
    /\ OwnKeys(WrittenResponses)[1] = "default"
    /\ HasNode(TheResponses, "default")
    /\ HasNode(TheResponses, "200")
    /\ res.kind = "yaml"
    /\ res.val = Obj(<<KV("application/json",
                          Obj(<<KV("default", Obj(<<KV("value", Str("200"))>>))>>))>>)

(* C10: on a document whose root is a mapping, whatever fields are absent   *)
(* or written without a value, every call ends in a result or a sentence;   *)
(* the only error is an invalid search pattern (a file that cannot be       *)
(* loaded aside).  The handlers read properties of a path item, an          *)
(* operation, a component or a scheme without testing that it has a value.  *)
C10_NoErrorOnAbsentFields ==
    (res # NoRes /\ doc.t = "obj") =>
        \/ res.kind \in {"yaml", "text"}
        \/ req.tool = "search-schema" /\ Malformed(SearchPattern)

C12_LoadedAnew ==
    res # NoRes =>
        /\ doc = LoadSchema(file)
        /\ req.tool = "list-endpoints" => res = ListEndpoints(LoadSchema(file))
        /\ req.tool = "list-components" => res = ListComponents(LoadSchema(file))

\* The call answered before had the same arguments, the file was edited in
\* between, and the answer follows the edit
C12_Witness ==
    /\ res # NoRes
    /\ last.req = req
    /\ last.file.state = "ok"
    /\ last.file # file
    /\ req.tool = "list-endpoints"
    /\ res # last.res
    /\ res = ListEndpoints(LoadSchema(file))

(* C13: a file that cannot be loaded fails the one call and no more: the    *)
(* server goes on, so whenever the file named is loadable and no call is    *)
(* being answered, the server takes the call.  loadSchema ends the process  *)
(* instead.                                                                 *)
C13_LoadFailureEndsCallOnly ==
    (CanLoad /\ res = NoRes) => alive

\* The names a search answer lists under a category (none when the answer
\* has no such category)
Listed(category) ==
    IF res.kind = "yaml" /\ HasOwn(res.val, category)
    THEN {x.v : x \in Range(OwnValue(res.val, category).v)}
    ELSE {}

SchemeNames == OwnKeys(GetOpt(GetOpt(doc, "components"), "securitySchemes"))

(* C14: search-schema takes the pattern as a regular expression, as given   *)
(* and without regard to case: "p.t" finds the path /pets and "KEY" finds   *)
(* the scheme key; a pattern that is not a regular expression ends the call *)
(* in a SyntaxError, never in a sentence or a result, and a pattern that is *)
(* one never does.                                                          *)
C14_PatternIsRegex ==
    Answered("search-schema") =>
        /\ Malformed(SearchPattern) <=> res = Throw("SyntaxError")
        /\ (SearchPattern = "p.t" /\ res.kind # "throw" /\ HasOwn(DocPaths, "/pets"))
             => "/pets" \in Listed("paths")
        /\ (SearchPattern = "KEY" /\ res.kind # "throw" /\ "key" \in Range(SchemeNames))
             => "key" \in Listed("securitySchemes")

\* A search with an unterminated group ended in the SyntaxError
C14_Witness ==
    /\ Answered("search-schema")
    /\ SearchPattern = "("
    /\ doc.t = "obj"
    /\ res = Throw("SyntaxError")

\* The paths mapping as the file writes it
WrittenPaths == Written(file.tree, "paths")

\* The texts of an operation a search looks at; a summary or description
\* that is absent or empty is read as the empty text
OperationTexts(operation) ==
    {IF HasNode(operation, f) /\ OwnValue(operation, f).t = "str"
     THEN OwnValue(operation, f).v ELSE "" : f \in {"summary", "description"}}
    \cup (IF HasNode(operation, "tags")
          THEN {t.v : t \in Range(Elems(OwnValue(operation, "tags")))} ELSE {})

\* The operation the path item has under the method name, and a text of it
\* matches the pattern
MatchingOperation(pathItem, method) ==
    /\ HasNode(pathItem, method)
    /\ \E t \in OperationTexts(OwnValue(pathItem, method)) : RegexTest(SearchPattern, t)

\* "METHOD path" for the matching operations: paths as the file writes them,
\* methods of a path in the fixed order
MatchingOperationsOf(i) ==
    LET ms == SelectSeq(HttpMethods,
                        LAMBDA m : MatchingOperation(WrittenPaths.v[i].v, m))
    IN  [j \in 1..Len(ms) |-> ToUpperCase(ms[j]) \o " " \o WrittenPaths.v[i].k]

MatchingOperations ==
    IF WrittenPaths.t # "obj" THEN <<>>
    ELSE Flatten([i \in 1..Len(WrittenPaths.v) |-> MatchingOperationsOf(i)])

\* The operations category of the answer (empty when the answer has none)
ListedOperations ==
    IF res.kind = "yaml" /\ HasOwn(res.val, "operations")
    THEN [i \in 1..Len(OwnValue(res.val, "operations").v) |->
             OwnValue(res.val, "operations").v[i].v]
    ELSE <<>>

(* C15: the operations category of a search-schema answer is the sequence   *)
(* of "METHOD path" for the operations, under the method names of the fixed *)
(* set, whose summary, description or a tag matches the pattern: paths in   *)
(* the order the document writes them, the methods of a path in the order   *)
(* get, post, put, delete, patch, options, head whatever order the document *)
(* writes them in.                                                          *)
C15_OperationsInScanOrder ==
    (Answered("search-schema") /\ res.kind \in {"yaml", "text"}) =>
        ListedOperations = MatchingOperations

\* The document writes post before get on /pets, both match, and the answer
\* lists get first
C15_Witness ==
    /\ Answered("search-schema")
    /\ SearchPattern = "pet"
    /\ WrittenPaths.t = "obj"
    /\ \E i \in 1..Len(WrittenPaths.v) :
           /\ WrittenPaths.v[i].k = "/pets"
           /\ OwnKeys(WrittenPaths.v[i].v) = <<"post", "get">>
    /\ ListedOperations = <<"GET /pets", "POST /pets">>

\* What list-endpoints reports for the document of the call
Reported == ListEndpoints(doc)

(* C16: list-endpoints and get-endpoint agree on the operations there are:  *)
(* when list-endpoints reports METHOD under a path, get-endpoint with that  *)
(* path and that method name answers the operation's record, also when the  *)
(* document writes the method key in upper case.  get-endpoint lower-cases  *)
(* the name it is given and reads that key only.                            *)
C16_ListedEndpointsResolve ==
    (/\ Answered("get-endpoint")
     /\ doc.t = "obj"
     /\ Reported.kind = "yaml"
     /\ HasOwn(Reported.val, req.path.v)
     /\ HasOwn(OwnValue(Reported.val, req.path.v), req.method.v))
        => res.kind = "yaml" /\ HasOwn(res.val, "path")

(* C17: in every search-schema answer each name under securitySchemes is    *)
(* also under components as "securitySchemes.<name>", so no answer has a    *)
(* securitySchemes category without a components category.  The scan of     *)
(* the component categories skips a category that is not a mapping; the     *)
(* scan of the security schemes does not.                                   *)
C17_SchemesAlsoComponents ==
    (Answered("search-schema") /\ res.kind = "yaml") =>
        /\ \A n \in Listed("securitySchemes") :
               ("securitySchemes." \o n) \in Listed("components")
        /\ HasOwn(res.val, "securitySchemes") => HasOwn(res.val, "components")

====
